---------------------------- MODULE Spec2Model ----------------------------
(***************************************************************************)
(* Model of fuse-sys: the fuse_operations attribute macro                  *)
(* (filesystem-macro/src/lib.rs), which turns the native operation table   *)
(* into safe traits, trampolines and the run harness, and of the code the  *)
(* macro emits as it behaves at run time under the native library.         *)
(***************************************************************************)
EXTENDS Integers, Sequences, FiniteSets, TLC

VARIABLES
    item,        \* the annotated struct: sequence of named fields
    attr,        \* the macro attribute: set of blacklisted field names
    expansion,   \* <<>> before the macro ran, <<output>> after
    UNTHREADED,  \* const generic of FuseMain: TRUE = exclusive flavor
    fuse_args,   \* the caller's argument list handed to run
    overrides,   \* the trait methods the implementation defines itself
    pcRun,       \* position of run: "init", "mounted", "returned", "done"
    operations,  \* run's local operation table
    user_data,   \* run's local UserData (the per-mount context)
    live,        \* TRUE while run's locals (this, user_data) are allocated
    args,        \* the argument vector handed to fuse_main_real
    out,         \* fuse_main_real's return value
    result,      \* run's return value
    stack,       \* per native dispatch thread: stack of trampoline frames
    aborted,     \* TRUE once a panic reached the native boundary
    source,      \* filesystem-error: what the producer wraps
    produced,    \* filesystem-error: <<>> or <<the Result produce() returned>>
    seen         \* filesystem-error: <<>> or <<what the consumer's match saw>>

vars == <<item, attr, expansion, UNTHREADED, fuse_args, overrides, pcRun, operations,
          user_data, live, args, out, result, stack, aborted, source, produced,
          seen>>

errVars == <<source, produced, seen>>
genVars == <<item, attr, expansion>>
runVars == <<UNTHREADED, fuse_args, overrides, pcRun, operations, user_data, live, args,
             out, result, stack, aborted>>

---------------------------------------------------------------------------
(* Bounds of the model.                                                    *)

MaxParams == 4      \* longest raw parameter list drawn for the synthesizer
MaxFields == 3      \* longest struct drawn for the analyzer
MaxThreads == 2     \* native dispatch threads under concurrent dispatch
MaxFrames == 2      \* trampoline invocations in progress at one time
MaxCode == 40       \* largest OS error code drawn for the error type

(* Program constants.                                                      *)

ENOSYS == 38        \* the decline code: `if out == -38`, from_raw_os_error(38)
EINTERNAL == 131    \* the internal sentinel: `-131`

---------------------------------------------------------------------------
(* Types as syn sees them.                                                 *)

Ptr(m, e) == [k |-> "ptr", mut |-> m, elem |-> e]
Path(id) == [k |-> "path", mut |-> FALSE, elem |-> id]
OtherTy == [k |-> "other", mut |-> FALSE, elem |-> ""]

Range(s) == {s[i] : i \in DOMAIN s}

\* fn is_ident(ty, ident): a path type whose last segment is ident
is_ident(ty, ident) == ty.k = "path" /\ ty.elem = ident

\* fn sub_type(ty): c_char becomes u8, anything else is kept
sub_type(elem) == IF elem = "c_char" THEN "u8" ELSE elem

\* gen_ident(base): a fresh identifier derived from base
gen_ident(base) == [gen |-> base]

EmptyConvert ==
    [new_inputs |-> <<>>, unconverted_call |-> <<>>, converted_call |-> <<>>,
     conversion |-> <<>>]

(***************************************************************************)
(* One iteration of `while let Some(arg) = inputs.next()`.  pos is the     *)
(* position of the inputs iterator, look that of the lookahead iterator    *)
(* (created with skip(1), advanced once per iteration).                    *)
(***************************************************************************)
RECURSIVE ConvertLoop(_, _, _, _)
ConvertLoop(inputs, pos, look, acc) ==
    IF pos > Len(inputs) THEN acc
    ELSE
      LET arg == inputs[pos]
          hasNext == look <= Len(inputs)
          sized == hasNext /\ is_ident(inputs[look].ty, "usize")
          ident == arg.name
          new_ident == gen_ident(ident)
          unconv == Append(acc.unconverted_call, ident)
          conv == Append(acc.converted_call, new_ident)
      IN
      IF arg.ty.k = "ptr" /\ sized THEN
          \* pointer followed by usize: a slice; inputs.next() consumes the length
          LET size_ident == inputs[look].name
              sub_ty == sub_type(arg.ty.elem)
              ty == [k |-> "slice", mut |-> arg.ty.mut, elem |-> sub_ty]
              slice_from == IF arg.ty.mut THEN "from_raw_parts_mut"
                            ELSE "from_raw_parts"
          IN ConvertLoop(inputs, pos + 2, look + 1,
               [new_inputs |-> Append(acc.new_inputs, [name |-> ident, ty |-> ty]),
                unconverted_call |-> Append(unconv, size_ident),
                converted_call |-> conv,
                conversion |-> Append(acc.conversion,
                    [let |-> new_ident, rule |-> slice_from, src |-> ident,
                     len |-> <<size_ident>>])])
      ELSE IF arg.ty.k = "ptr" /\ ~arg.ty.mut /\ arg.ty.elem = "c_char" THEN
          \* *const c_char: CStr::from_ptr(..).to_str().unwrap()
          ConvertLoop(inputs, pos + 1, look + 1,
               [new_inputs |-> Append(acc.new_inputs,
                    [name |-> ident, ty |-> [k |-> "str", mut |-> FALSE, elem |-> ""]]),
                unconverted_call |-> unconv,
                converted_call |-> conv,
                conversion |-> Append(acc.conversion,
                    [let |-> new_ident, rule |-> "to_str", src |-> ident,
                     len |-> <<>>])])
      ELSE IF arg.ty.k = "ptr" THEN
          \* any other pointer: Option<& #mutability #elem>
          LET ref_from == IF arg.ty.mut THEN "as_mut" ELSE "as_ref"
          IN ConvertLoop(inputs, pos + 1, look + 1,
               [new_inputs |-> Append(acc.new_inputs,
                    [name |-> ident,
                     ty |-> [k |-> "optref", mut |-> arg.ty.mut, elem |-> arg.ty.elem]]),
                unconverted_call |-> unconv,
                converted_call |-> conv,
                conversion |-> Append(acc.conversion,
                    [let |-> new_ident, rule |-> ref_from, src |-> ident,
                     len |-> <<>>])])
      ELSE
          \* Type::Path and every other type: let new_ident = ident
          ConvertLoop(inputs, pos + 1, look + 1,
               [new_inputs |-> Append(acc.new_inputs, [name |-> ident, ty |-> arg.ty]),
                unconverted_call |-> unconv,
                converted_call |-> conv,
                conversion |-> Append(acc.conversion,
                    [let |-> new_ident, rule |-> "move", src |-> ident,
                     len |-> <<>>])])

\* The conversion with the raw length argument of a slice left out of the
\* fallback's argument list.
UnsafeFnConvertDropLen(inputs) ==
    LET full == ConvertLoop(inputs, 1, 2, EmptyConvert)
        sizes == {c.len[1] : c \in {d \in Range(full.conversion) : d.len # <<>>}}
    IN [full EXCEPT !.unconverted_call =
            SelectSeq(full.unconverted_call, LAMBDA id : id \notin sizes)]

\* UnsafeFnConvert::new(inputs)
UnsafeFnConvert(inputs) == ConvertLoop(inputs, 1, 2, EmptyConvert)

---------------------------------------------------------------------------
(* The struct fields the macro walks over.                                 *)

\* Option<unsafe extern "C" fn(inputs [, ...]) output>
OptionFn(inputs, variadic, output) ==
    [k |-> "option", arg |-> "fn", variadic |-> variadic, output |-> output,
     inputs |-> inputs]
\* Option<T> for a T that is no bare function
OptionOther ==
    [k |-> "option", arg |-> "type", variadic |-> FALSE, output |-> OtherTy,
     inputs |-> <<>>]
\* a path type whose last segment is not Option (c_uint, ...)
PlainPath ==
    [k |-> "path", arg |-> "none", variadic |-> FALSE, output |-> OtherTy,
     inputs |-> <<>>]
\* a type that is no path (array, bit-field storage, ...)
NonPath ==
    [k |-> "array", arg |-> "none", variadic |-> FALSE, output |-> OtherTy,
     inputs |-> <<>>]

\* The same checks without the blacklist test.
AcceptedNoBlacklist(field, blacklist) ==
    /\ field.ty.k = "option"
    /\ field.ty.arg = "fn"
    /\ ~field.ty.variadic
    /\ is_ident(field.ty.output, "c_int")

\* The same checks without the test of the return type.
AcceptedAnyOutput(field, blacklist) ==
    /\ field.name \notin blacklist
    /\ field.ty.k = "option"
    /\ field.ty.arg = "fn"
    /\ ~field.ty.variadic

\* The checks of the `for field in fields` body that end in `continue`,
\* in the order of the code; TRUE when the field gets past all of them.
Accepted(field, blacklist) ==
    IF field.name \in blacklist THEN FALSE
    ELSE IF field.ty.k \notin {"path", "option"} THEN FALSE
    ELSE IF field.ty.k # "option" THEN FALSE
    ELSE IF field.ty.arg = "none" THEN FALSE
    ELSE IF field.ty.arg # "fn" THEN FALSE
    ELSE IF field.ty.variadic \/ ~is_ident(field.ty.output, "c_int") THEN FALSE
    ELSE TRUE

EmptyExpansion ==
    [descs |-> <<>>, unthreaded_fns |-> <<>>, threaded_fns |-> <<>>,
     raw_unthreaded_fns |-> <<>>, raw_threaded_fns |-> <<>>,
     op_assignments |-> <<>>]

\* The `for field in fields` loop of fuse_operations: what it has pushed to
\* each of its output streams after the fields from position i on.
RECURSIVE MacroLoop(_, _, _, _)
MacroLoop(fields, blacklist, i, acc) ==
    IF i > Len(fields) THEN acc
    ELSE IF ~Accepted(fields[i], blacklist)
         THEN MacroLoop(fields, blacklist, i + 1, acc)
    ELSE
      LET name == fields[i].name
          conv == UnsafeFnConvert(fields[i].ty.inputs)
          method == [name |-> name, inputs |-> conv.new_inputs]
          raw == [name |-> name, inputs |-> fields[i].ty.inputs]
      IN MacroLoop(fields, blacklist, i + 1,
           [descs |-> Append(acc.descs,
                [name |-> name, inputs |-> fields[i].ty.inputs, convert |-> conv]),
            unthreaded_fns |-> Append(acc.unthreaded_fns, method),
            threaded_fns |-> Append(acc.threaded_fns, method),
            raw_unthreaded_fns |-> Append(acc.raw_unthreaded_fns, raw),
            raw_threaded_fns |-> Append(acc.raw_threaded_fns, raw),
            op_assignments |-> Append(acc.op_assignments, name)])

\* #[fuse_operations[blacklist]] applied to the struct
fuse_operations(blacklist, fields) == MacroLoop(fields, blacklist, 1, EmptyExpansion)

---------------------------------------------------------------------------
(* The operation table: one entry per field of the struct.                 *)

None == [tag |-> "None", fn |-> ""]
Some(name) == [tag |-> "Some", fn |-> name]
Zero == [tag |-> "zero", fn |-> ""]

FieldNamesOf(fields) == {fields[i].name : i \in DOMAIN fields}
FieldOf(fields, n) == CHOOSE f \in Range(fields) : f.name = n

\* crate::fuse_operations::default() (derive_default): every field zeroed
DefaultTable(fields) ==
    [n \in FieldNamesOf(fields) |->
        IF FieldOf(fields, n).ty.k = "option" THEN None ELSE Zero]

\* #op_assignments: operations.#name = Some(Self::#name); for each pushed name
RECURSIVE Assign(_, _, _)
Assign(table, names, i) ==
    IF i > Len(names) THEN table
    ELSE Assign([table EXCEPT ![names[i]] = Some(names[i])], names, i + 1)

---------------------------------------------------------------------------
(* build.rs: the attribute text inserted before the struct.                *)

\* `blacklisted` per target_os: each element is one string literal, given
\* here as the identifiers it holds
blacklisted(target_os) ==
    IF target_os = "macos"
    THEN << <<"getdir">>, <<"utime">>, <<"reserved00", "reserved01">> >>
    ELSE << <<"getdir", "utime">> >>

\* blacklisted.join(", ") parsed as Punctuated<Ident, Comma>
RECURSIVE JoinParse(_, _)
JoinParse(pieces, i) ==
    IF i > Len(pieces) THEN {}
    ELSE Range(pieces[i]) \cup JoinParse(pieces, i + 1)

BuildAttr(target_os) == JoinParse(blacklisted(target_os), 1)

---------------------------------------------------------------------------
(* The safe methods and the result mapping of the trampolines.             *)

Ok(v) == [k |-> "Ok", v |-> v]
ErrIoOs(c) == [k |-> "io_os", v |-> c]     \* io::Error with a raw OS code
ErrIo == [k |-> "io", v |-> 0]             \* io::Error without a raw OS code
ErrErrno(e) == [k |-> "errno", v |-> e]    \* nix::errno::Errno
ErrOther == [k |-> "other", v |-> 0]       \* any other anyhow::Error
NoResult == [k |-> "none", v |-> 0]

\* A provided body that fails with an error wrapping no OS code.
DefaultMethodNoCode == ErrOther

\* the provided body of every trait method, in both traits
DefaultMethod == ErrIoOs(ENOSYS)

OkValues == {0, -ENOSYS}
OsCodes == {2, ENOSYS}
MethodResults ==
    {Ok(v) : v \in OkValues} \cup {ErrIoOs(c) : c \in OsCodes}
      \cup {ErrErrno(c) : c \in OsCodes} \cup {ErrIo, ErrOther}

\* what Self::#name(..) can return: anything when the implementation
\* overrides the method, the provided body's value otherwise
MethodOutcomes(name, overridden) ==
    IF name \in overridden THEN MethodResults ELSE {DefaultMethod}

\* A mapping that reports every OS error as the internal sentinel.
MapResultNoOs(res) ==
    IF res.k = "Ok" THEN [out |-> res.v, diag |-> FALSE]
    ELSE [out |-> -EINTERNAL, diag |-> TRUE]

\* `let out = match out { Ok(o) => o, Err(e) => ... }`
MapResult(res) ==
    IF res.k = "Ok" THEN [out |-> res.v, diag |-> FALSE]
    ELSE IF res.k = "io_os" THEN [out |-> -res.v, diag |-> FALSE]
    ELSE IF res.k = "io" THEN [out |-> -EINTERNAL, diag |-> TRUE]
    ELSE IF res.k = "errno" THEN [out |-> -(res.v), diag |-> FALSE]
    ELSE [out |-> -EINTERNAL, diag |-> TRUE]

---------------------------------------------------------------------------
(* Raw arguments and the conversion statements at run time.                *)

\* The raw values the native caller passes for a parameter: "p" a valid
\* non-null pointer to valid data, "bad" a non-null pointer to a name whose
\* bytes are no UTF-8 (file names are arbitrary bytes to the kernel), and
\* numbers as text.  Null pointers are not drawn.
RawValues(ty) ==
    IF ty.k = "ptr" /\ ~ty.mut /\ ty.elem = "c_char" THEN {"p", "bad"}
    ELSE IF ty.k = "ptr" THEN {"buf"}
    ELSE IF is_ident(ty, "usize") THEN {"4096"}
    ELSE {"0"}

AllRawValues == {"p", "bad", "buf", "4096", "0"}

RawArgs(inputs) ==
    {a \in [1..Len(inputs) -> AllRawValues] :
        \A i \in 1..Len(inputs) : a[i] \in RawValues(inputs[i].ty)}

\* the value bound to a raw parameter name inside the trampoline
Bound(inputs, raw, ident) ==
    raw[CHOOSE i \in 1..Len(inputs) : inputs[i].name = ident]

\* How the #conversion statements end: to_str().unwrap() panics on bytes
\* that are no UTF-8; the other statements go on.
ConversionOutcomes(conversion, inputs, raw) ==
    IF \E c \in Range(conversion) :
          c.rule = "to_str" /\ Bound(inputs, raw, c.src) = "bad"
    THEN {"panic"}
    ELSE {"ok"}

\* #unconverted_call evaluated in the trampoline
Unconverted(call, inputs, raw) ==
    [i \in 1..Len(call) |-> Bound(inputs, raw, call[i])]

---------------------------------------------------------------------------
(* The run harness (FuseMain::run) and the generated UserData.             *)

\* UserData::new(ops, this)
UserData_new(ops, this) == [ops |-> ops, this |-> this]

NoUserData == [ops |-> <<>>, this |-> "null"]

\* The argument vector without the harness's own flag.
BuildArgsNoFlag(caller, unthreaded) == caller

\* args_owned: the caller's arguments, then "-s" pushed if UNTHREADED
BuildArgs(caller, unthreaded) ==
    IF unthreaded THEN Append(caller, "-s") ELSE caller

\* A run that reports success whatever the native call returned.
RunOutcomeAlwaysOk(code) == [k |-> "Ok", v |-> 0]

\* `match out { 0 => Ok(()), e => Err(e) }`
RunOutcome(code) ==
    IF code = 0 THEN [k |-> "Ok", v |-> 0] ELSE [k |-> "Err", v |-> code]

NoOutcome == [k |-> "none", v |-> 0]

\* the descriptor the macro built for an operation
Desc(name) ==
    LET descs == expansion[1].descs
    IN descs[CHOOSE i \in DOMAIN descs : descs[i].name = name]

OpNames == IF expansion = <<>> THEN {}
           ELSE {expansion[1].descs[i].name : i \in DOMAIN expansion[1].descs}

---------------------------------------------------------------------------
(* Trampoline frames.                                                      *)

Threads == 1..MaxThreads

RECURSIVE FramesUpTo(_)
FramesUpTo(t) == IF t = 0 THEN 0 ELSE Len(stack[t]) + FramesUpTo(t - 1)
Frames == FramesUpTo(MaxThreads)

\* The native library dispatches on one thread when it was given -s.
DispatchThreads == IF "-s" \in Range(args) THEN {1} ELSE Threads

NewFrame(name, raw) ==
    [op |-> name, args |-> raw, pc |-> "entry", res |-> NoResult, mapped |-> 0,
     diag |-> FALSE, dummy |-> <<>>, handle |-> "none", sent |-> <<>>,
     nat |-> <<>>, ret |-> <<>>]

Top(t) == stack[t][Len(stack[t])]
SetTop(t, f) == [stack EXCEPT ![t] = [@ EXCEPT ![Len(@)] = f]]
Push(t, f) == [stack EXCEPT ![t] = Append(@, f)]
Pop(t) == [stack EXCEPT ![t] = SubSeq(@, 1, Len(@) - 1)]

\* (*fuse_get_context()).private_data for the frame at depth d of thread t:
\* the per-mount context for a dispatch of the mount, the transient context
\* of the enclosing fallback for a dispatch through its handle.
PrivateData(t, d) ==
    IF d = 1 THEN user_data ELSE stack[t][d - 1].dummy[1]

\* A fallback that builds its context without unsetting the entry.
CloneKeep(private_data, name) ==
    UserData_new(private_data.ops, private_data.this)

\* `let mut ops = private_data.ops.clone(); ops.#name = None;
\*  UserData::new(ops, private_data.this)`
CloneNulled(private_data, name) ==
    UserData_new([private_data.ops EXCEPT ![name] = None], private_data.this)

---------------------------------------------------------------------------
(* Inputs.                                                                 *)

ArgNames == <<"a1", "a2", "a3", "a4", "a5", "a6", "a7", "a8">>
FieldNames == <<"getattr", "getdir", "read", "utime", "mkdir", "init">>

ParamTypes ==
    {Ptr(FALSE, "c_char"), Ptr(TRUE, "c_char"), Ptr(FALSE, "stat"),
     Ptr(TRUE, "stat"), Path("usize"), Path("c_int"), OtherTy}

\* every raw parameter list of at most MaxParams parameters
ParamLists ==
    UNION {{[i \in 1..n |-> [name |-> ArgNames[i], ty |-> tys[i]]] :
              tys \in [1..n -> ParamTypes]} : n \in 0..MaxParams}

PathArg == [name |-> "path", ty |-> Ptr(FALSE, "c_char")]
CInt == Path("c_int")

\* field types the analyzer is tried on
FieldTypes ==
    {OptionFn(<<PathArg>>, FALSE, CInt), OptionFn(<<PathArg>>, TRUE, CInt),
     OptionFn(<<PathArg>>, FALSE, Ptr(TRUE, "c_void")),
     OptionFn(<<PathArg>>, FALSE, [k |-> "unit", mut |-> FALSE, elem |-> ""]),
     OptionFn(<<>>, FALSE, Path("c_uint")),
     OptionOther, PlainPath, NonPath}

\* structs for the analyzer, and one-field structs for the synthesizer
GenItems ==
    UNION {{[i \in 1..n |-> [name |-> FieldNames[i], ty |-> tys[i]]] :
              tys \in [1..n -> FieldTypes]} : n \in 0..MaxFields}
    \cup {<<[name |-> "read", ty |-> OptionFn(inputs, FALSE, CInt)]>> :
              inputs \in ParamLists}

GenBlacklists == {{}, BuildAttr("linux"), {"getattr", "getdir"}}

\* the operation table of the mounts that are run
FiArg == [name |-> "fi", ty |-> Ptr(TRUE, "fuse_file_info")]
GetattrTy ==
    OptionFn(<<PathArg, [name |-> "stbuf", ty |-> Ptr(TRUE, "stat")], FiArg>>,
             FALSE, CInt)
ReadTy ==
    OptionFn(<<PathArg, [name |-> "buf", ty |-> Ptr(TRUE, "c_char")],
               [name |-> "size", ty |-> Path("usize")],
               [name |-> "off", ty |-> Path("off_t")], FiArg>>, FALSE, CInt)
InitTy ==
    OptionFn(<<[name |-> "conn", ty |-> Ptr(TRUE, "fuse_conn_info")]>>, FALSE,
             Ptr(TRUE, "c_void"))

RunItem(getdirTy) ==
    <<[name |-> "getattr", ty |-> GetattrTy], [name |-> "read", ty |-> ReadTy],
      [name |-> "getdir", ty |-> getdirTy], [name |-> "init", ty |-> InitTy],
      [name |-> "flag_nopath", ty |-> PlainPath]>>

\* the struct and the attribute build.rs gives the macro, per configuration
RunConfigs ==
    {[target_os |-> "linux", item |-> RunItem(OptionFn(<<PathArg>>, FALSE, CInt))],
     [target_os |-> "macos", item |-> RunItem(OptionOther)]}

Implementations == {{}, {"getattr"}, {"read"}}

\* the lists of examples/passthrough.rs (without and with debug), and a
\* list without the single-thread flag
CallerArgs ==
    {<<"fs", "/mnt", "-f", "-s">>, <<"fs", "/mnt", "-f", "-s", "-d">>,
     <<"fs", "/mnt", "-f">>}

NativeExits == {0, 1}
NativeResults == {0, -ENOSYS}

---------------------------------------------------------------------------
(* Build time.                                                             *)

Expand ==
    /\ expansion = <<>>
    /\ expansion' = <<fuse_operations(attr, item)>>
    /\ UNCHANGED <<item, attr>>
    /\ UNCHANGED runVars
    /\ UNCHANGED errVars

---------------------------------------------------------------------------
(* FuseMain::run.                                                          *)

\* run up to the call of fuse_main_real
RunStart ==
    /\ pcRun = "init"
    /\ expansion # <<>>
    /\ LET table == Assign(DefaultTable(item), expansion[1].op_assignments, 1)
       IN /\ operations' = table
          /\ user_data' = UserData_new(table, "this")
    /\ args' = BuildArgs(fuse_args, UNTHREADED)
    /\ live' = TRUE
    /\ pcRun' = "mounted"
    /\ UNCHANGED <<UNTHREADED, fuse_args, overrides, out, result, stack, aborted>>
    /\ UNCHANGED genVars
    /\ UNCHANGED errVars

\* fuse_main_real returns once no dispatch is in progress
NativeMainReturn ==
    /\ pcRun = "mounted"
    /\ ~aborted
    /\ \A t \in Threads : stack[t] = <<>>
    /\ \E code \in NativeExits : out' = <<code>>
    /\ pcRun' = "returned"
    /\ UNCHANGED <<UNTHREADED, fuse_args, overrides, operations, user_data, live,
                   args, result, stack, aborted>>
    /\ UNCHANGED genVars
    /\ UNCHANGED errVars

\* the match on out, then the locals of run are dropped
RunReturn ==
    /\ pcRun = "returned"
    /\ result' = RunOutcome(out[1])
    /\ live' = FALSE
    /\ pcRun' = "done"
    /\ UNCHANGED <<UNTHREADED, fuse_args, overrides, operations, user_data, args,
                   out, stack, aborted>>
    /\ UNCHANGED genVars
    /\ UNCHANGED errVars

---------------------------------------------------------------------------
(* The native library calling into the table, and the trampolines.         *)

frameVars == <<item, attr, expansion, UNTHREADED, fuse_args, overrides, pcRun,
               operations, user_data, live, args, out, result>>

\* the native event loop dispatches an operation of the mounted table
NativeDispatch(t) ==
    /\ pcRun = "mounted"
    /\ ~aborted
    /\ t \in DispatchThreads
    /\ stack[t] = <<>>
    /\ Frames < MaxFrames
    /\ \E n \in DOMAIN operations :
         /\ operations[n].tag = "Some"
         /\ \E raw \in RawArgs(Desc(operations[n].fn).inputs) :
              stack' = Push(t, NewFrame(operations[n].fn, raw))
    /\ UNCHANGED aborted
    /\ UNCHANGED frameVars
    /\ UNCHANGED errVars

\* A fallback whose handle is built over the table it was cloned from.
NativeNestedUncloned(t) ==
    /\ ~aborted
    /\ stack[t] # <<>>
    /\ Top(t).pc = "dispatch"
    /\ Frames < MaxFrames
    /\ LET table == PrivateData(t, Len(stack[t])).ops
       IN \E n \in DOMAIN table :
            /\ table[n].tag = "Some"
            /\ \E raw \in RawArgs(Desc(table[n].fn).inputs) :
                 stack' = Push(t, NewFrame(table[n].fn, raw))
    /\ UNCHANGED aborted
    /\ UNCHANGED frameVars
    /\ UNCHANGED errVars

\* the native default path of a fallback dispatches an operation that is
\* set in the table of the transient handle
NativeNested(t) ==
    /\ ~aborted
    /\ stack[t] # <<>>
    /\ Top(t).pc = "dispatch"
    /\ Frames < MaxFrames
    /\ LET table == Top(t).dummy[1].ops
       IN \E n \in DOMAIN table :
            /\ table[n].tag = "Some"
            /\ \E raw \in RawArgs(Desc(table[n].fn).inputs) :
                 stack' = Push(t, NewFrame(table[n].fn, raw))
    /\ UNCHANGED aborted
    /\ UNCHANGED frameVars
    /\ UNCHANGED errVars

\* #conversion panics (or, on undefined behaviour, stops the process)
TrampolinePanic(t) ==
    /\ ~aborted
    /\ stack[t] # <<>>
    /\ Top(t).pc = "entry"
    /\ LET d == Desc(Top(t).op)
       IN "panic" \in ConversionOutcomes(d.convert.conversion, d.inputs, Top(t).args)
    /\ aborted' = TRUE
    /\ UNCHANGED stack
    /\ UNCHANGED frameVars
    /\ UNCHANGED errVars

\* #conversion, UserData::from_raw, Self::#name(this, #converted_call) and
\* the match that maps its result
TrampolineBody(t) ==
    /\ ~aborted
    /\ stack[t] # <<>>
    /\ Top(t).pc = "entry"
    /\ LET d == Desc(Top(t).op)
           private_data == PrivateData(t, Len(stack[t]))
       IN /\ "ok" \in ConversionOutcomes(d.convert.conversion, d.inputs, Top(t).args)
          /\ private_data.this # "null"
          /\ \E res \in MethodOutcomes(Top(t).op, overrides) :
               stack' = SetTop(t, [Top(t) EXCEPT !.pc = "mapped", !.res = res,
                                     !.mapped = MapResult(res).out,
                                     !.diag = MapResult(res).diag])
    /\ UNCHANGED aborted
    /\ UNCHANGED frameVars
    /\ UNCHANGED errVars

\* `if out == -38 { .. } else { out }`: the else branch
ReturnMapped(t) ==
    /\ ~aborted
    /\ stack[t] # <<>>
    /\ Top(t).pc = "mapped"
    /\ Top(t).mapped # -ENOSYS
    /\ stack' = SetTop(t, [Top(t) EXCEPT !.pc = "return", !.ret = <<Top(t).mapped>>])
    /\ UNCHANGED aborted
    /\ UNCHANGED frameVars
    /\ UNCHANGED errVars

\* the clone of the table with the entry unset, and the transient context
FallbackClone(t) ==
    /\ ~aborted
    /\ stack[t] # <<>>
    /\ Top(t).pc = "mapped"
    /\ Top(t).mapped = -ENOSYS
    /\ stack' = SetTop(t, [Top(t) EXCEPT !.pc = "cloned",
              !.dummy = <<CloneNulled(PrivateData(t, Len(stack[t])), Top(t).op)>>])
    /\ UNCHANGED aborted
    /\ UNCHANGED frameVars
    /\ UNCHANGED errVars

\* crate::fuse_fs_new(&dummy.ops, size, &mut dummy)
FallbackNew(t) ==
    /\ ~aborted
    /\ stack[t] # <<>>
    /\ Top(t).pc = "cloned"
    /\ stack' = SetTop(t, [Top(t) EXCEPT !.pc = "handle", !.handle = "live"])
    /\ UNCHANGED aborted
    /\ UNCHANGED frameVars
    /\ UNCHANGED errVars

\* format!("crate::fuse_fs_{name}"): the native dispatch entry of an operation
fuse_fs_name(name) == [fuse_fs |-> name]

\* crate::fuse_fs_#name(dummy_fs, #unconverted_call) is entered
FallbackDispatch(t) ==
    /\ ~aborted
    /\ stack[t] # <<>>
    /\ Top(t).pc = "handle"
    /\ LET d == Desc(Top(t).op)
       IN stack' = SetTop(t, [Top(t) EXCEPT !.pc = "dispatch",
              !.sent = <<[fn |-> fuse_fs_name(Top(t).op),
                          args |-> Unconverted(d.convert.unconverted_call,
                                               d.inputs, Top(t).args)]>>])
    /\ UNCHANGED aborted
    /\ UNCHANGED frameVars
    /\ UNCHANGED errVars

\* the native library's own result for the dispatch through the handle
NativeDefault(t) ==
    /\ ~aborted
    /\ stack[t] # <<>>
    /\ Top(t).pc = "dispatch"
    /\ \E r \in NativeResults :
         stack' = SetTop(t, [Top(t) EXCEPT !.pc = "dispatched", !.nat = <<r>>])
    /\ UNCHANGED aborted
    /\ UNCHANGED frameVars
    /\ UNCHANGED errVars

\* A fallback that returns the native result and leaves the handle alone.
FallbackKeepHandle(t) ==
    /\ ~aborted
    /\ stack[t] # <<>>
    /\ Top(t).pc = "dispatched"
    /\ stack' = SetTop(t, [Top(t) EXCEPT !.pc = "return", !.ret = Top(t).nat])
    /\ UNCHANGED aborted
    /\ UNCHANGED frameVars
    /\ UNCHANGED errVars

\* crate::fuse_fs_destroy(dummy_fs), then the trailing `out` of the branch
FallbackDestroy(t) ==
    /\ ~aborted
    /\ stack[t] # <<>>
    /\ Top(t).pc = "dispatched"
    /\ stack' = SetTop(t, [Top(t) EXCEPT !.pc = "return", !.handle = "destroyed",
                                         !.ret = Top(t).nat])
    /\ UNCHANGED aborted
    /\ UNCHANGED frameVars
    /\ UNCHANGED errVars

\* the trampoline's frame is left and the native caller has the status
Leave(t) ==
    /\ ~aborted
    /\ stack[t] # <<>>
    /\ Top(t).pc = "return"
    /\ stack' = Pop(t)
    /\ UNCHANGED aborted
    /\ UNCHANGED frameVars
    /\ UNCHANGED errVars

---------------------------------------------------------------------------
(* The error type (filesystem-error/src/lib.rs) and its unwrapping test.   *)

\* std::io::Error as the crate uses it: from_raw_os_error(code) keeps the
\* code; an error built from a kind alone has none
from_raw_os_error(code) == [repr |-> "Os", code |-> code]
SimpleIo == [repr |-> "Simple", code |-> 0]
NoIo == [repr |-> "none", code |-> 0]

\* io::Error::raw_os_error(): Some(code) for an OS error, None otherwise
raw_os_error(ioerr) == IF ioerr.repr = "Os" THEN <<ioerr.code>> ELSE <<>>

\* An IO variant that keeps only the kind of the error it wraps.
IOKindOnly(ioerr) == [variant |-> "IO", io |-> SimpleIo, errno |-> 0]

\* the variants of `pub enum Error`
IO(ioerr) == [variant |-> "IO", io |-> ioerr, errno |-> 0]
Errno(e) == [variant |-> "Errno", io |-> NoIo, errno |-> e]
Internal == [variant |-> "Internal", io |-> NoIo, errno |-> 0]

\* the conversions `#[from]` derives: io::Error -> IO, Errno -> Errno
From(src) ==
    IF src.k = "io" THEN IO(src.io)
    ELSE IF src.k = "errno" THEN Errno(src.errno)
    ELSE Internal

\* what a producer wraps: an io::Error (with or without an OS code), an
\* errno, or nothing (Internal); wrapped by naming the variant or by `?`
Codes == 1..MaxCode
Sources ==
    {[k |-> "io", io |-> e, errno |-> 0, via |-> v] :
        e \in {from_raw_os_error(c) : c \in Codes} \cup {SimpleIo},
        v \in {"variant", "from"}}
      \cup {[k |-> "errno", io |-> NoIo, errno |-> c, via |-> v] :
              c \in Codes, v \in {"variant", "from"}}
      \cup {[k |-> "internal", io |-> NoIo, errno |-> 0, via |-> "variant"]}

\* fn produce() -> Result<()>: Err(Error::IO(..)) of the test, and the
\* same for the other variants
produce ==
    /\ produced = <<>>
    /\ produced' =
         <<[k |-> "Err",
            err |-> IF source.via = "from" THEN From(source)
                    ELSE IF source.k = "io" THEN IO(source.io)
                    ELSE IF source.k = "errno" THEN Errno(source.errno)
                    ELSE Internal]>>
    /\ UNCHANGED <<source, seen>>
    /\ UNCHANGED genVars
    /\ UNCHANGED runVars

\* `if let Err(err) = produce() { match err { Error::IO(ioerr) => .., _ => .. } }`
unwrapping ==
    /\ produced # <<>>
    /\ seen = <<>>
    /\ produced[1].k = "Err"
    /\ LET err == produced[1].err
       IN seen' = IF err.variant = "IO"
                  THEN <<[arm |-> "IO", raw |-> raw_os_error(err.io)]>>
                  ELSE <<[arm |-> "_", raw |-> <<>>]>>
    /\ UNCHANGED <<source, produced>>
    /\ UNCHANGED genVars
    /\ UNCHANGED runVars

IdleErr ==
    /\ source = [k |-> "internal", io |-> NoIo, errno |-> 0, via |-> "variant"]
    /\ produced = <<>>
    /\ seen = <<>>

---------------------------------------------------------------------------
(* Specifications.                                                         *)

IdleRun ==
    /\ UNTHREADED = FALSE
    /\ fuse_args = <<>>
    /\ overrides = {}
    /\ pcRun = "init"
    /\ operations = <<>>
    /\ user_data = NoUserData
    /\ live = FALSE
    /\ args = <<>>
    /\ out = <<>>
    /\ result = NoOutcome
    /\ stack = [t \in Threads |-> <<>>]
    /\ aborted = FALSE

\* a mount: the table as the build gives it to the macro, any flavor, any
\* caller arguments, any set of overridden methods
Init ==
    /\ \E c \in RunConfigs : item = c.item /\ attr = BuildAttr(c.target_os)
    /\ expansion = <<>>
    /\ UNTHREADED \in BOOLEAN
    /\ fuse_args \in CallerArgs
    /\ overrides \in Implementations
    /\ pcRun = "init"
    /\ operations = <<>>
    /\ user_data = NoUserData
    /\ live = FALSE
    /\ args = <<>>
    /\ out = <<>>
    /\ result = NoOutcome
    /\ stack = [t \in Threads |-> <<>>]
    /\ aborted = FALSE
    /\ IdleErr

Next ==
    \/ Expand
    \/ RunStart
    \/ NativeMainReturn
    \/ RunReturn
    \/ \E t \in Threads :
         \/ NativeDispatch(t)
         \/ NativeNested(t)
         \/ TrampolinePanic(t)
         \/ TrampolineBody(t)
         \/ ReturnMapped(t)
         \/ FallbackClone(t)
         \/ FallbackNew(t)
         \/ FallbackDispatch(t)
         \/ NativeDefault(t)
         \/ FallbackDestroy(t)
         \/ Leave(t)

Spec == Init /\ [][Next]_vars

\* the macro alone, on every struct and attribute of the bounded sets
InitGen ==
    /\ item \in GenItems
    /\ attr \in GenBlacklists
    /\ expansion = <<>>
    /\ IdleRun
    /\ IdleErr

NextGen == Expand

SpecGen == InitGen /\ [][NextGen]_vars

\* the error type alone, on every source of the bounded set
InitErr ==
    /\ item = <<>>
    /\ attr = {}
    /\ expansion = <<>>
    /\ IdleRun
    /\ source \in Sources
    /\ produced = <<>>
    /\ seen = <<>>

NextErr == produce \/ unwrapping

SpecErr == InitErr /\ [][NextErr]_vars

---------------------------------------------------------------------------
(* Properties.                                                             *)

FrameIds == {<<t, d>> : t \in Threads, d \in 1..MaxFrames}
LiveFrames == {id \in FrameIds : id[2] <= Len(stack[id[1]])}
Frame(id) == stack[id[1]][id[2]]
Mapped(f) == f.res.k # "none"

\* C1: the trampoline maps a success carrying v to v, a failure wrapping an
\* OS error with code c to -c, and any other failure to -131 with a
\* diagnostic; a mapped code other than -38 is what the trampoline returns.
\* The mapping does not depend on the flavor, so both flavors agree.
C1_ResultMapping ==
    \A id \in LiveFrames :
        LET f == Frame(id)
        IN Mapped(f) =>
            /\ f.res.k = "Ok" => f.mapped = f.res.v /\ ~f.diag
            /\ f.res.k \in {"io_os", "errno"} => f.mapped = 0 - f.res.v /\ ~f.diag
            /\ f.res.k \in {"io", "other"} => f.mapped = -131 /\ f.diag
            /\ (f.pc = "return" /\ f.mapped # -38) => f.ret = <<f.mapped>>

\* Under the shared flavor, one trampoline has returned -2 for an OS error
\* 2 while another has returned -131, with a diagnostic, for a failure
\* that wraps no OS error.
C1_Witness ==
    /\ ~UNTHREADED
    /\ \E a, b \in LiveFrames :
         /\ Frame(a).pc = "return" /\ Frame(a).res = ErrIoOs(2)
         /\ Frame(a).ret = <<-2>>
         /\ Frame(b).pc = "return" /\ Frame(b).res = ErrOther
         /\ Frame(b).ret = <<-131>> /\ Frame(b).diag

\* C2: every trampoline invocation ends by returning a status code; none
\* ends in a panic that reaches the native caller.
C2_NoAbnormalTermination == ~aborted

\* C3: the fallback runs exactly when the mapped code is -38; it dispatches
\* the same operation through the native library with the raw arguments the
\* trampoline received, and the trampoline returns the native result.
C3_FallbackDispatch ==
    \A id \in LiveFrames :
        LET f == Frame(id)
        IN /\ (f.dummy # <<>> \/ f.handle # "none" \/ f.sent # <<>> \/ f.nat # <<>>)
                => Mapped(f) /\ f.mapped = -38
           /\ f.sent # <<>> =>
                f.sent[1].fn = fuse_fs_name(f.op) /\ f.sent[1].args = f.args
           /\ f.pc = "return" =>
                IF f.mapped = -38
                THEN f.sent # <<>> /\ f.nat # <<>> /\ f.ret = f.nat
                ELSE f.sent = <<>> /\ f.ret = <<f.mapped>>

\* read has declined, the native library was given path, buf, size, off and
\* fi as received, and the trampoline has returned the native result 0.
C3_Witness ==
    \E id \in LiveFrames :
        /\ Frame(id).op = "read" /\ Frame(id).pc = "return"
        /\ Frame(id).mapped = -38
        /\ Frame(id).sent[1].args = <<"p", "buf", "4096", "0", "buf">>
        /\ Frame(id).ret = <<0>>

\* C4 (state part): the transient context of a fallback for O holds a table
\* that differs from the table of the context it was cloned from in O's
\* entry alone, which is unset, and the same filesystem reference.
C4_CloneDiffersInOneEntry ==
    \A id \in LiveFrames :
        LET f == Frame(id)
            ctx == PrivateData(id[1], id[2])
        IN f.dummy # <<>> =>
            /\ DOMAIN f.dummy[1].ops = DOMAIN ctx.ops
            /\ ctx.ops[f.op].tag = "Some"
            /\ f.dummy[1].ops[f.op].tag = "None"
            /\ \A n \in DOMAIN ctx.ops : n # f.op => f.dummy[1].ops[n] = ctx.ops[n]
            /\ f.dummy[1].this = ctx.this

Tables ==
    {operations, user_data.ops}
      \cup {Frame(id).dummy[1].ops : id \in {i \in LiveFrames : Frame(i).dummy # <<>>}}

\* C5: in the harness's table, in the context's snapshot and in every
\* fallback clone, the entry of a blacklisted name is never set.
C5_BlacklistedUnset ==
    pcRun # "init" =>
        \A table \in Tables : \A n \in attr \cap DOMAIN table : table[n].tag # "Some"

\* getdir is blacklisted and has the shape of an accepted operation; it is
\* unset in the mounted table and in the clone of a fallback in progress.
C5_Witness ==
    /\ pcRun = "mounted"
    /\ "getdir" \in attr
    /\ FieldOf(item, "getdir").ty = OptionFn(<<PathArg>>, FALSE, CInt)
    /\ operations["getdir"] = None
    /\ \E id \in LiveFrames :
         Frame(id).dummy # <<>> /\ Frame(id).dummy[1].ops["getdir"] = None

\* the names of a sequence of named records, in order
NamesOf(seq) == [i \in DOMAIN seq |-> seq[i].name]

\* a field that is an optional raw function pointer, non-variadic, returning
\* c_int and not blacklisted
EligibleField(f) ==
    /\ f.ty.k = "option" /\ f.ty.arg = "fn"
    /\ ~f.ty.variadic
    /\ f.ty.output = Path("c_int")
    /\ f.name \notin attr

\* C6: the accepted operations are exactly the fields that are an optional
\* raw function pointer, non-variadic, returning c_int and not blacklisted;
\* each yields one descriptor, one method and one trampoline per flavor and
\* one table assignment, in field order; every other field yields none and
\* keeps its default in the assembled table.
C6_AcceptedExactly ==
    expansion # <<>> =>
        LET e == expansion[1]
            eligible == NamesOf(SelectSeq(item, EligibleField))
            table == Assign(DefaultTable(item), e.op_assignments, 1)
        IN /\ NamesOf(e.descs) = eligible
           /\ NamesOf(e.unthreaded_fns) = eligible
           /\ NamesOf(e.threaded_fns) = eligible
           /\ NamesOf(e.raw_unthreaded_fns) = eligible
           /\ NamesOf(e.raw_threaded_fns) = eligible
           /\ e.op_assignments = eligible
           /\ \A i \in DOMAIN item :
                table[item[i].name] =
                    IF EligibleField(item[i]) THEN Some(item[i].name)
                    ELSE IF item[i].ty.k = "option" THEN None ELSE Zero

\* A struct of an eligible field, a variadic one and one with another
\* return type was expanded: one descriptor, for the first field.
C6_Witness ==
    /\ expansion # <<>>
    /\ Len(item) = 3
    /\ attr = {}
    /\ item[1].ty = OptionFn(<<PathArg>>, FALSE, CInt)
    /\ item[2].ty = OptionFn(<<PathArg>>, TRUE, CInt)
    /\ item[3].ty = OptionFn(<<PathArg>>, FALSE, Ptr(TRUE, "c_void"))
    /\ expansion[1].op_assignments = <<item[1].name>>

IsPair(inputs, i) ==
    /\ i < Len(inputs)
    /\ inputs[i].ty.k = "ptr"
    /\ inputs[i + 1].ty = Path("usize")

PairCount(inputs) == Cardinality({i \in DOMAIN inputs : IsPair(inputs, i)})

\* C7: every pointer immediately followed by a length is collapsed,
\* wherever the pair occurs, so a raw signature with k such pairs
\* synthesizes to a signature with exactly k fewer parameters.
C7_EveryPairCollapsed ==
    expansion # <<>> =>
        \A i \in DOMAIN expansion[1].descs :
            LET d == expansion[1].descs[i]
            IN Len(d.convert.new_inputs) = Len(d.inputs) - PairCount(d.inputs)

\* the synthesized parameters the ordered rules give from position i on
RECURSIVE ByRules(_, _)
ByRules(inputs, i) ==
    IF i > Len(inputs) THEN <<>>
    ELSE IF IsPair(inputs, i)
    THEN <<[name |-> inputs[i].name,
            ty |-> [k |-> "slice", mut |-> inputs[i].ty.mut,
                    elem |-> IF inputs[i].ty.elem = "c_char" THEN "u8"
                             ELSE inputs[i].ty.elem]]>>
         \o ByRules(inputs, i + 2)
    ELSE IF inputs[i].ty = Ptr(FALSE, "c_char")
    THEN <<[name |-> inputs[i].name, ty |-> [k |-> "str", mut |-> FALSE, elem |-> ""]]>>
         \o ByRules(inputs, i + 1)
    ELSE IF inputs[i].ty.k = "ptr"
    THEN <<[name |-> inputs[i].name,
            ty |-> [k |-> "optref", mut |-> inputs[i].ty.mut,
                    elem |-> inputs[i].ty.elem]]>>
         \o ByRules(inputs, i + 1)
    ELSE <<inputs[i]>> \o ByRules(inputs, i + 1)

\* C8: each raw parameter is converted by the first rule that matches:
\* pointer followed by a length -> bounded view; const pointer to c_char ->
\* text view; any other pointer -> optional reference; anything else
\* passes through.
C8_FirstMatchingRule ==
    expansion # <<>> =>
        \A i \in DOMAIN expansion[1].descs :
            LET d == expansion[1].descs[i]
            IN d.convert.new_inputs = ByRules(d.inputs, 1)

HasFlag(argv) == "-s" \in Range(argv)

\* C9 as claimed: the argument vector handed to the native main entry
\* point contains -s if and only if the exclusive flavor is selected.
C9_FlagIffExclusive ==
    pcRun # "init" => (HasFlag(args) <=> UNTHREADED)

\* C9 as amended: the vector is the caller's list, followed by -s when the
\* exclusive flavor is selected; so -s is present in every exclusive run,
\* and in a shared run exactly when the caller passed it.
C9_FlagAppendedIffExclusive ==
    pcRun # "init" =>
        /\ UNTHREADED => args = fuse_args \o <<"-s">>
        /\ ~UNTHREADED => args = fuse_args
        /\ HasFlag(args) <=> (UNTHREADED \/ HasFlag(fuse_args))

\* An exclusive-flavor mount whose caller passed no -s runs with -s.
C9_Witness ==
    /\ pcRun = "mounted"
    /\ UNTHREADED
    /\ ~HasFlag(fuse_args)
    /\ HasFlag(args)

\* C10: the per-mount context and the filesystem instance are allocated
\* from before the native main call until after its return, so every
\* trampoline invocation finds them; run returns success iff the native
\* call returned 0, and the native code unchanged otherwise.
C10_ContextOutlivesMount ==
    /\ pcRun \in {"mounted", "returned"} => live /\ user_data.this = "this"
    /\ Frames > 0 => pcRun = "mounted" /\ live
    /\ pcRun \in {"init", "mounted", "returned"} => result = NoOutcome
    /\ pcRun = "done" =>
         /\ ~live
         /\ out[1] = 0 => result = [k |-> "Ok", v |-> 0]
         /\ out[1] # 0 => result = [k |-> "Err", v |-> out[1]]

\* The native call has returned 1 after the mount and run has returned
\* that code as its failure.
C10_Witness ==
    /\ pcRun = "done"
    /\ out = <<1>>
    /\ result = [k |-> "Err", v |-> 1]

\* C11: an OS error code wrapped into the IO variant stays in the IO variant
\* and the consumer's match reads the same code back from it; an error that
\* reaches the consumer in the Internal variant reports no code, and no
\* error built without an OS code reports one.
C11_IoKeepsOsCode ==
    /\ produced # <<>> =>
          /\ source.k = "io" => produced[1].err.variant = "IO"
                                  /\ produced[1].err.io = source.io
          /\ source.k = "internal" => produced[1].err.variant = "Internal"
    /\ seen # <<>> =>
          /\ (source.k = "io" /\ source.io.repr = "Os") =>
                seen[1] = [arm |-> "IO", raw |-> <<source.io.code>>]
          /\ source.k = "internal" => seen[1].raw = <<>>
          /\ seen[1].raw # <<>> => source.k = "io" /\ source.io.repr = "Os"

\* The test's case: the code 38 was wrapped by naming the IO variant and
\* the match arm for IO found raw_os_error() to be Some(38).
C11_Witness ==
    /\ source.k = "io" /\ source.via = "variant"
    /\ source.io = from_raw_os_error(38)
    /\ seen = <<[arm |-> "IO", raw |-> <<38>>]>>

\* C12 (state part): where a fallback stands tells which of its steps are
\* done: the clone with O's entry unset and the transient context come
\* first, then the handle, then the dispatch of O through the handle, then
\* the native result, then the destruction of the handle, and the
\* trampoline is at its return only with the handle destroyed.  A frame
\* that did not decline never has a handle.
C12_StepsInOrder ==
    \A id \in LiveFrames :
        LET f == Frame(id)
            built == f.dummy # <<>> /\ f.dummy[1].ops[f.op] = None
        IN /\ f.pc \in {"entry", "mapped"} =>
                f.dummy = <<>> /\ f.handle = "none" /\ f.sent = <<>> /\ f.nat = <<>>
           /\ f.pc = "cloned" =>
                built /\ f.handle = "none" /\ f.sent = <<>> /\ f.nat = <<>>
           /\ f.pc = "handle" =>
                built /\ f.handle = "live" /\ f.sent = <<>> /\ f.nat = <<>>
           /\ f.pc = "dispatch" =>
                built /\ f.handle = "live" /\ f.sent # <<>> /\ f.nat = <<>>
           /\ f.pc = "dispatched" =>
                built /\ f.handle = "live" /\ f.sent # <<>> /\ f.nat # <<>>
           /\ f.pc = "return" =>
                IF f.mapped = -38
                THEN built /\ f.handle = "destroyed" /\ f.sent # <<>> /\ f.nat # <<>>
                ELSE f.dummy = <<>> /\ f.handle = "none"
           /\ id[2] < Len(stack[id[1]]) => f.pc = "dispatch"

\* C12 (step part): the handle of an invocation changes only from absent to
\* alive and from alive to destroyed, so it is constructed once and
\* destroyed once; an invocation that returns leaves no handle alive.
C12_HandleStep ==
    \A t \in Threads :
        /\ \A d \in 1..Len(stack[t]) :
              d <= Len(stack'[t]) =>
                LET f == stack[t][d]
                    g == stack'[t][d]
                IN f.handle # g.handle =>
                     \/ f.handle = "none" /\ g.handle = "live" /\ f.pc = "cloned"
                     \/ f.handle = "live" /\ g.handle = "destroyed"
                          /\ f.pc = "dispatched" /\ g.pc = "return"
        /\ Len(stack'[t]) < Len(stack[t]) =>
              Top(t).pc = "return" /\ Top(t).handle # "live"

\* C12: the steps of every fallback occur in the order clone and unset,
\* context, handle, dispatch, destroy, return; each fallback constructs one
\* handle and destroys it once, and none is alive after the return.
C12_FallbackLifecycle ==
    /\ []C12_StepsInOrder
    /\ [][C12_HandleStep]_vars

\* A fallback for getattr ran inside the native default path of a fallback
\* for read: the inner one is at its return with its handle destroyed
\* while the outer one still holds its own handle alive.
C12_Witness ==
    \E t \in Threads :
        /\ Len(stack[t]) = 2
        /\ stack[t][1].op = "read" /\ stack[t][1].handle = "live"
        /\ stack[t][2].op = "getattr" /\ stack[t][2].pc = "return"
        /\ stack[t][2].handle = "destroyed" /\ stack[t][2].ret = stack[t][2].nat

\* the operations that are set in a table
SetIn(table) == {n \in DOMAIN table : table[n].tag = "Some"}

\* C13: while a fallback for O is in progress, no trampoline entered from
\* its native dispatch, at any depth, is the trampoline of O: the table a
\* nested trampoline was called from has the entries of all the operations
\* whose fallbacks enclose it unset.  Each nested fallback therefore works
\* on a table with fewer set entries, and a chain of fallbacks is at most
\* as long as the number of operations the mounted table sets.
C13_NoReentry ==
    \A t \in Threads :
        /\ \A d \in 1..Len(stack[t]) :
              LET f == stack[t][d]
                  ctx == PrivateData(t, d)
              IN /\ f.op \in SetIn(ctx.ops)
                 /\ \A e \in 1..(d - 1) :
                       /\ stack[t][e].op # f.op
                       /\ stack[t][e].op \notin SetIn(ctx.ops)
                 /\ f.dummy # <<>> =>
                       /\ SetIn(f.dummy[1].ops) = SetIn(ctx.ops) \ {f.op}
                       /\ Cardinality(SetIn(f.dummy[1].ops))
                             < Cardinality(SetIn(ctx.ops))
        /\ pcRun = "mounted" => Len(stack[t]) <= Cardinality(SetIn(user_data.ops))

\* getattr declined inside the native default path of a fallback for read:
\* the table of its own fallback sets no operation at all, so the chain
\* ends here.
C13_Witness ==
    \E t \in Threads :
        /\ Len(stack[t]) = 2
        /\ stack[t][1].op = "read" /\ stack[t][1].pc = "dispatch"
        /\ stack[t][2].op = "getattr" /\ stack[t][2].pc = "dispatch"
        /\ SetIn(stack[t][1].dummy[1].ops) = {"getattr"}
        /\ SetIn(stack[t][2].dummy[1].ops) = {}

\* C14: every accepted operation has its trampoline in the assembled table
\* and in the per-mount context, whatever the implementation overrides; an
\* invocation of an operation the implementation does not override gets
\* the OS error 38 from the provided method, in either flavor, maps it to
\* -38, and returns only through the fallback with the native library's
\* result, never through the branch that returns the mapped code.
C14_UnoverriddenDeclines ==
    /\ pcRun # "init" =>
          \A n \in OpNames :
              operations[n] = Some(n) /\ user_data.ops[n] = Some(n)
    /\ \A id \in LiveFrames :
          LET f == Frame(id)
          IN f.op \notin overrides =>
               /\ f.pc # "entry" =>
                     f.res = ErrIoOs(38) /\ f.mapped = -38 /\ ~f.diag
               /\ f.pc = "return" =>
                     /\ f.sent # <<>> /\ f.sent[1].fn = fuse_fs_name(f.op)
                     /\ f.nat # <<>> /\ f.ret = f.nat

\* Under the shared flavor an implementation that overrides read alone is
\* mounted; getattr has its trampoline in the table, a call of it was
\* declined by the provided method and the trampoline returned the native
\* default's result 0.
C14_Witness ==
    /\ ~UNTHREADED
    /\ overrides = {"read"}
    /\ pcRun = "mounted"
    /\ operations["getattr"] = Some("getattr")
    /\ \E id \in LiveFrames :
          /\ Frame(id).op = "getattr" /\ Frame(id).pc = "return"
          /\ Frame(id).res = ErrIoOs(38)
          /\ Frame(id).ret = <<0>>

===========================================================================
